---- MODULE Spec2Model ----
(***************************************************************************)
(* The Network aggregate of the authorization domain (Network, Role,       *)
(* Permission) as a state machine.  Strings are sequences of one-character *)
(* strings so that toUpperCase, trim and the /^[A-Z_]+$/ test are computed *)
(* character by character, as the code computes them.                      *)
(*                                                                         *)
(* Role objects are values here.  The specification Spec calls only the    *)
(* mutators of Network, with Role arguments built by the Role constructor; *)
(* no Role or Permission setter is called after construction, so sharing   *)
(* of a Role object between two keys is not observable in Spec.            *)
(***************************************************************************)
EXTENDS Integers, Sequences, FiniteSets, TLC

VARIABLES adminId, members, roles, resources, createdAt, updatedAt, now, last,
          heap, list, roleObj, permissionObj, networkRepository, calls

vars == <<adminId, members, roles, resources, createdAt, updatedAt, now, last,
          heap, list, roleObj, permissionObj, networkRepository, calls>>

\* the fields of the Network aggregate
network == <<adminId, members, roles, resources, createdAt, updatedAt, now>>

\* a Role and a Permission handled on their own, the array the caller
\* holds and the arrays in memory
objects == <<heap, list, roleObj, permissionObj>>

\* the rows of the network repository and the execute calls in progress
application == <<networkRepository, calls>>

\* the execute calls that can be in progress at the same time
CallIds == {"c1", "c2"}

\* findNetworkByName and findNetworkById resolving with null
NoNetwork == [uuid |-> 0, name |-> <<>>, adminId |-> ""]

\* no execute call: the locals of a call that has not set them
NoCall ==
    [useCase |-> "none", pc |-> "idle", data |-> <<>>, admin |-> "",
     existingNetwork |-> NoNetwork, network |-> NoNetwork, create |-> FALSE,
     mutation |-> FALSE, result |-> [success |-> TRUE, error |-> "NONE"]]

\* no network is persisted and no use case is running
NoRequests ==
    /\ networkRepository = {}
    /\ calls = [c \in CallIds |-> NoCall]

\* the arrays that can be allocated
Refs == {"a1", "a2", "a3"}

NoRole == [name |-> <<>>, permissions |-> "null"]

NoPermission == [action |-> <<>>, resource |-> <<>>]

\* no Role or Permission is handled outside the aggregate
NoObjects ==
    /\ heap = [r \in Refs |-> <<>>]
    /\ list = "a1"
    /\ roleObj = NoRole
    /\ permissionObj = NoPermission

(* ------------------------------ bounds -------------------------------- *)

\* the clock (new Date()) takes the values 0..MaxClock
MaxClock == 1

(* ------------------------------ strings ------------------------------- *)

LowerCase == <<"a","b","c","d","e","f","g","h","i","j","k","l","m",
               "n","o","p","q","r","s","t","u","v","w","x","y","z">>

UpperCase == <<"A","B","C","D","E","F","G","H","I","J","K","L","M",
               "N","O","P","Q","R","S","T","U","V","W","X","Y","Z">>

Letters == 1..Len(LowerCase)

\* the upper-case letter of every lower-case letter
UpperOf ==
    [c \in {LowerCase[i] : i \in Letters} |->
        UpperCase[CHOOSE i \in Letters : LowerCase[i] = c]]

UpperLetters == {UpperCase[i] : i \in Letters}

toUpperCaseChar(c) == IF c \in DOMAIN UpperOf THEN UpperOf[c] ELSE c

\* String.prototype.toUpperCase
toUpperCase(s) == [i \in 1..Len(s) |-> toUpperCaseChar(s[i])]

RECURSIVE trimStart(_)
trimStart(s) == IF s # <<>> /\ Head(s) = " " THEN trimStart(Tail(s)) ELSE s

RECURSIVE trimEnd(_)
trimEnd(s) ==
    IF s # <<>> /\ s[Len(s)] = " " THEN trimEnd(SubSeq(s, 1, Len(s) - 1)) ELSE s

\* String.prototype.trim
trim(s) == trimEnd(trimStart(s))

\* /^[A-Z_]+$/.test(s)
testUpperUnderscore(s) ==
    /\ Len(s) > 0
    /\ \A i \in 1..Len(s) : s[i] \in UpperLetters \/ s[i] = "_"

ADMIN == <<"A","D","M","I","N">>
NURSE == <<"N","U","R","S","E">>
nurse == <<"n","u","r","s","e">>
READ == <<"R","E","A","D">>
WRITE == <<"W","R","I","T","E">>
DELETE == <<"D","E","L","E","T","E">>
ALL == <<"A","L","L">>
PATIENT_FILE == <<"P","A","T","I","E","N","T","_","F","I","L","E">>
DOC == <<"D","O","C">>
nursePadded == <<" ","n","u","r","s","e"," ">>
n1 == <<"n","1">>
r1 == <<"r","1">>
all == <<"a","l","l">>
allPadded == <<" ","a","l","l">>
doc == <<"d","o","c">>
read == <<"r","e","a","d">>
readPadded == <<" ","R","e","a","d"," ">>
write == <<"w","r","i","t","e">>

(* ----------------------------- Permission ----------------------------- *)

\* validateAction / validateResource: the value returned when nothing is thrown
validateAction(action) == trim(toUpperCase(action))

validateActionThrows(action) ==
    action = <<>> \/ ~testUpperUnderscore(trim(toUpperCase(action)))

validateResource(resource) == trim(toUpperCase(resource))

validateResourceThrows(resource) ==
    resource = <<>> \/ ~testUpperUnderscore(trim(toUpperCase(resource)))

PermissionThrows(action, resource) ==
    validateActionThrows(action) \/ validateResourceThrows(resource)

\* new Permission(action, resource)
Permission(action, resource) ==
    [action |-> validateAction(action), resource |-> validateResource(resource)]

\* equals comparing the actions only
equals_ActionOnly(p, other) == p.action = other.action

\* Permission.equals
equals(p, other) == p.action = other.action /\ p.resource = other.resource

(* -------------------------------- Role -------------------------------- *)

validateName(name) == trim(toUpperCase(name))

validateNameThrows(name) ==
    name = <<>> \/ ~testUpperUnderscore(trim(toUpperCase(name)))

\* new Role(name, permissions): the permissions array is copied
Role(name, permissions) ==
    [name |-> validateName(name), permissions |-> permissions]

\* hasPermission treating the resource ALL as a wildcard
hasPermission_WildcardAll(role, permission) ==
    \E i \in 1..Len(role.permissions) :
        /\ role.permissions[i].action = permission.action
        /\ role.permissions[i].resource \in {permission.resource, ALL}

\* Role.hasPermission
hasPermission(role, permission) ==
    \E i \in 1..Len(role.permissions) : equals(role.permissions[i], permission)

(* ------------------------------- inputs ------------------------------- *)

UserIds == {"u1", "u2", "u3"}

\* the adminId given to the constructor
AdminIdArgs == {"u1"}

\* names a caller builds Role objects from; the constructor rejects n1
RawRoleNames == {ADMIN, NURSE, nurse, nursePadded, n1}

\* role names a caller passes to updateRole, removeRole, addMember, assignRoleToUser
RoleNameArgs == {ADMIN, NURSE, nurse}

AdminPermissions ==
    <<Permission(READ, ALL), Permission(WRITE, ALL), Permission(DELETE, ALL)>>

PermissionLists == {<<>>, AdminPermissions}

\* the Role objects a caller can hand to addRole and updateRole
RoleArgs ==
    {Role(n, p) : n \in {r \in RawRoleNames : ~validateNameThrows(r)},
                  p \in PermissionLists}

ResourceIds == {DOC}

ResourceNames == {"chart"}

(* -------------------------------- maps -------------------------------- *)

EmptyMap == [k \in {} |-> k]

MapHas(m, k) == k \in DOMAIN m

MapSet(m, k, v) == [x \in (DOMAIN m) \cup {k} |-> IF x = k THEN v ELSE m[x]]

MapDelete(m, k) == [x \in (DOMAIN m) \ {k} |-> m[x]]

(* ------------------------------ Network ------------------------------- *)

\* a call that throws changes no field of the aggregate
Throw(op, e) ==
    /\ last' = [op |-> op, err |-> e]
    /\ UNCHANGED <<adminId, members, roles, resources, createdAt, updatedAt, now>>
    /\ UNCHANGED objects
    /\ UNCHANGED application

\* a mutator that returns normally ends with this._updatedAt = new Date()
Return(op) ==
    /\ last' = [op |-> op, err |-> "NONE"]
    /\ updatedAt' = now
    /\ UNCHANGED <<adminId, createdAt, now>>
    /\ UNCHANGED objects
    /\ UNCHANGED application

\* new Network(uuid, name, adminId) with a non-empty name and adminId
Init ==
    /\ adminId \in AdminIdArgs
    /\ members = MapSet(EmptyMap, adminId, [userId |-> adminId, roleId |-> ADMIN])
    /\ roles = MapSet(EmptyMap, ADMIN, Role(ADMIN, AdminPermissions))
    /\ resources = EmptyMap
    /\ now = 0
    /\ createdAt = now
    /\ updatedAt = now
    /\ last = [op |-> "constructor", err |-> "NONE"]
    /\ NoObjects
    /\ NoRequests

\* the wall clock read by new Date() advances between calls
Tick ==
    /\ now < MaxClock
    /\ now' = now + 1
    /\ UNCHANGED <<adminId, members, roles, resources, createdAt, updatedAt, last>>
    /\ UNCHANGED objects
    /\ UNCHANGED application

addRole(role) ==
    IF MapHas(roles, role.name)
    THEN Throw("addRole", "DUPLICATE_ROLE")
    ELSE /\ roles' = MapSet(roles, role.name, role)
         /\ UNCHANGED <<members, resources>>
         /\ Return("addRole")

updateRole(roleName, newRole) ==
    IF ~MapHas(roles, roleName)
    THEN Throw("updateRole", "ROLE_NOT_FOUND")
    ELSE /\ roles' = MapSet(roles, roleName, newRole)
         /\ UNCHANGED <<members, resources>>
         /\ Return("updateRole")

\* removeRole without the check that no member holds the role
removeRole_NoInUseCheck(roleName) ==
    IF ~MapHas(roles, roleName)
    THEN Throw("removeRole", "ROLE_NOT_FOUND")
    ELSE /\ roles' = MapDelete(roles, roleName)
         /\ UNCHANGED <<members, resources>>
         /\ Return("removeRole")

removeRole(roleName) ==
    IF ~MapHas(roles, roleName)
    THEN Throw("removeRole", "ROLE_NOT_FOUND")
    ELSE IF \E u \in DOMAIN members : members[u].roleId = roleName
    THEN Throw("removeRole", "ROLE_IN_USE")
    ELSE /\ roles' = MapDelete(roles, roleName)
         /\ UNCHANGED <<members, resources>>
         /\ Return("removeRole")

\* addMember looking the role up before the membership check
addMember_RoleCheckFirst(userId, roleName) ==
    LET key == toUpperCase(roleName) IN
    IF ~MapHas(roles, key)
    THEN Throw("addMember", "ROLE_NOT_FOUND")
    ELSE IF MapHas(members, userId)
    THEN Throw("addMember", "USER_ALREADY_IN_NETWORK")
    ELSE /\ members' = MapSet(members, userId,
                [userId |-> userId, roleId |-> roles[key].name])
         /\ UNCHANGED <<roles, resources>>
         /\ Return("addMember")

addMember(userId, roleName) ==
    IF MapHas(members, userId)
    THEN Throw("addMember", "USER_ALREADY_IN_NETWORK")
    ELSE LET key == toUpperCase(roleName) IN
         IF ~MapHas(roles, key)
         THEN Throw("addMember", "ROLE_NOT_FOUND")
         ELSE /\ members' = MapSet(members, userId,
                     [userId |-> userId, roleId |-> roles[key].name])
              /\ UNCHANGED <<roles, resources>>
              /\ Return("addMember")

\* removeMember returning normally for a user who is not a member
removeMember_SilentWhenMissing(userId) ==
    IF userId = adminId
    THEN Throw("removeMember", "CANNOT_REMOVE_ADMIN")
    ELSE /\ members' = MapDelete(members, userId)
         /\ UNCHANGED <<roles, resources>>
         /\ Return("removeMember")

\* removeMember without the guard on the administrator
removeMember_NoAdminGuard(userId) ==
    IF ~MapHas(members, userId)
    THEN Throw("removeMember", "USER_NOT_FOUND")
    ELSE /\ members' = MapDelete(members, userId)
         /\ UNCHANGED <<roles, resources>>
         /\ Return("removeMember")

removeMember(userId) ==
    IF userId = adminId
    THEN Throw("removeMember", "CANNOT_REMOVE_ADMIN")
    ELSE IF ~MapHas(members, userId)
    THEN Throw("removeMember", "USER_NOT_FOUND")
    ELSE /\ members' = MapDelete(members, userId)
         /\ UNCHANGED <<roles, resources>>
         /\ Return("removeMember")

\* assignRoleToUser without the membership check (an upsert)
assignRoleToUser_Upsert(userId, roleName) ==
    LET key == toUpperCase(roleName) IN
    IF ~MapHas(roles, key)
    THEN Throw("assignRoleToUser", "ROLE_NOT_FOUND")
    ELSE /\ members' = MapSet(members, userId,
                [userId |-> userId, roleId |-> roles[key].name])
         /\ UNCHANGED <<roles, resources>>
         /\ Return("assignRoleToUser")

assignRoleToUser(userId, roleName) ==
    LET key == toUpperCase(roleName) IN
    IF ~MapHas(roles, key)
    THEN Throw("assignRoleToUser", "ROLE_NOT_FOUND")
    ELSE IF ~MapHas(members, userId)
    THEN Throw("assignRoleToUser", "USER_NOT_FOUND")
    ELSE /\ members' = MapSet(members, userId,
                [userId |-> userId, roleId |-> roles[key].name])
         /\ UNCHANGED <<roles, resources>>
         /\ Return("assignRoleToUser")

\* addResource that keeps the entry already stored under resourceId
addResource_KeepExisting(resourceId, name, ownerId) ==
    /\ resources' = IF MapHas(resources, resourceId)
                    THEN resources
                    ELSE MapSet(resources, resourceId,
                                [name |-> name, ownerId |-> ownerId])
    /\ UNCHANGED <<members, roles>>
    /\ Return("addResource")

\* addResource without the write of updatedAt
addResource_NoStamp(resourceId, name, ownerId) ==
    /\ resources' = MapSet(resources, resourceId, [name |-> name, ownerId |-> ownerId])
    /\ last' = [op |-> "addResource", err |-> "NONE"]
    /\ UNCHANGED <<adminId, members, roles, createdAt, updatedAt, now>>
    /\ UNCHANGED objects
    /\ UNCHANGED application

addResource(resourceId, name, ownerId) ==
    /\ resources' = MapSet(resources, resourceId, [name |-> name, ownerId |-> ownerId])
    /\ UNCHANGED <<members, roles>>
    /\ Return("addResource")

\* removeResource stamping updatedAt before the presence check
removeResource_StampFirst(resourceId) ==
    IF ~MapHas(resources, resourceId)
    THEN /\ last' = [op |-> "removeResource", err |-> "RESOURCE_NOT_FOUND"]
         /\ updatedAt' = now
         /\ UNCHANGED <<adminId, members, roles, resources, createdAt, now>>
         /\ UNCHANGED objects
         /\ UNCHANGED application
    ELSE /\ resources' = MapDelete(resources, resourceId)
         /\ UNCHANGED <<members, roles>>
         /\ Return("removeResource")

removeResource(resourceId) ==
    IF ~MapHas(resources, resourceId)
    THEN Throw("removeResource", "RESOURCE_NOT_FOUND")
    ELSE /\ resources' = MapDelete(resources, resourceId)
         /\ UNCHANGED <<members, roles>>
         /\ Return("removeResource")

Next ==
    \/ Tick
    \/ \E role \in RoleArgs : addRole(role)
    \/ \E roleName \in RoleNameArgs, newRole \in RoleArgs : updateRole(roleName, newRole)
    \/ \E roleName \in RoleNameArgs : removeRole(roleName)
    \/ \E userId \in UserIds, roleName \in RoleNameArgs : addMember(userId, roleName)
    \/ \E userId \in UserIds : removeMember(userId)
    \/ \E userId \in UserIds, roleName \in RoleNameArgs : assignRoleToUser(userId, roleName)
    \/ \E resourceId \in ResourceIds, name \in ResourceNames, ownerId \in UserIds :
           addResource(resourceId, name, ownerId)
    \/ \E resourceId \in ResourceIds : removeResource(resourceId)

Spec == Init /\ [][Next]_vars

(* --------------------- construction and queries ---------------------- *)

WardA == <<"W","a","r","d"," ","A">>

\* the name argument of the constructor; <<>> is the empty string
NameArgs == {<<>>, WardA}

\* the adminId argument of the constructor; "" is an absent adminId
ConstructorAdminIdArgs == AdminIdArgs \cup {""}

\* the permissions a caller asks canUser about
PermissionArgs ==
    {Permission(READ, ALL), Permission(WRITE, ALL), Permission(READ, PATIENT_FILE)}

\* before new Network(...) has run there is no aggregate
InitNew ==
    /\ adminId = ""
    /\ members = EmptyMap
    /\ roles = EmptyMap
    /\ resources = EmptyMap
    /\ now = 0
    /\ createdAt = 0
    /\ updatedAt = 0
    /\ last = [op |-> "new", err |-> "NONE"]
    /\ NoObjects
    /\ NoRequests

\* an aggregate exists: the constructor has returned normally
Constructed ==
    /\ last.op # "new"
    /\ ~(last.op = "constructor" /\ last.err # "NONE")

\* the constructor testing adminId before name
constructor_AdminCheckFirst(name, adminIdArg) ==
    /\ last.op = "new"
    /\ IF adminIdArg = ""
       THEN Throw("constructor", "MISSING_ADMIN")
       ELSE IF name = <<>>
       THEN Throw("constructor", "EMPTY_NAME")
       ELSE /\ adminId' = adminIdArg
            /\ members' = MapSet(EmptyMap, adminIdArg,
                                 [userId |-> adminIdArg, roleId |-> ADMIN])
            /\ roles' = MapSet(EmptyMap, ADMIN, Role(ADMIN, AdminPermissions))
            /\ resources' = EmptyMap
            /\ createdAt' = now
            /\ \E t2 \in now..MaxClock : updatedAt' = t2 /\ now' = t2
            /\ last' = [op |-> "constructor", err |-> "NONE"]
            /\ UNCHANGED objects
            /\ UNCHANGED application

\* new Network(uuid, name, adminId); createdAt and updatedAt are two
\* successive readings of the clock, the first at the time the call starts
constructor(name, adminIdArg) ==
    /\ last.op = "new"
    /\ IF name = <<>>
       THEN Throw("constructor", "EMPTY_NAME")
       ELSE IF adminIdArg = ""
       THEN Throw("constructor", "MISSING_ADMIN")
       ELSE /\ adminId' = adminIdArg
            /\ members' = MapSet(EmptyMap, adminIdArg,
                                 [userId |-> adminIdArg, roleId |-> ADMIN])
            /\ roles' = MapSet(EmptyMap, ADMIN, Role(ADMIN, AdminPermissions))
            /\ resources' = EmptyMap
            /\ createdAt' = now
            /\ \E t2 \in now..MaxClock : updatedAt' = t2 /\ now' = t2
            /\ last' = [op |-> "constructor", err |-> "NONE"]
            /\ UNCHANGED objects
            /\ UNCHANGED application

\* isAdmin answering by the role the user holds
isAdmin_ByRole(userId) ==
    MapHas(members, userId) /\ members[userId].roleId = ADMIN

\* Network.isAdmin
isAdmin(userId) == adminId = userId

\* Network.canUser
canUser(userId, permission) ==
    IF ~MapHas(members, userId) THEN FALSE
    ELSE IF ~MapHas(roles, members[userId].roleId) THEN FALSE
    ELSE hasPermission(roles[members[userId].roleId], permission)

\* the elements of a finite set in some order (Array.from over a Map)
RECURSIVE ArrayFrom(_)
ArrayFrom(S) ==
    IF S = {} THEN <<>>
    ELSE LET x == CHOOSE y \in S : TRUE IN <<x>> \o ArrayFrom(S \ {x})

\* Permission.toJSON
PermissionToJSON(p) == [action |-> p.action, resource |-> p.resource]

\* Role.toJSON
RoleToJSON(role) ==
    [name |-> role.name,
     permissions |-> [i \in 1..Len(role.permissions) |->
                         PermissionToJSON(role.permissions[i])]]

\* Network.toJSON
toJSON ==
    LET memberKeys == ArrayFrom(DOMAIN members)
        roleKeys == ArrayFrom(DOMAIN roles)
        resourceKeys == ArrayFrom(DOMAIN resources)
    IN  [adminId |-> adminId,
         members |-> [i \in 1..Len(memberKeys) |-> members[memberKeys[i]]],
         roles |-> [i \in 1..Len(roleKeys) |-> RoleToJSON(roles[roleKeys[i]])],
         resources |-> [i \in 1..Len(resourceKeys) |->
                           [id |-> resourceKeys[i],
                            name |-> resources[resourceKeys[i]].name,
                            ownerId |-> resources[resourceKeys[i]].ownerId]],
         createdAt |-> createdAt,
         updatedAt |-> updatedAt]

\* a query returns a value and writes no field
Query(op, result) ==
    /\ last' = [op |-> op, err |-> "NONE", result |-> result]
    /\ UNCHANGED <<adminId, members, roles, resources, createdAt, updatedAt, now>>
    /\ UNCHANGED objects
    /\ UNCHANGED application

isAdminCall(userId) == Query("isAdmin", isAdmin(userId))

canUserCall(userId, permission) == Query("canUser", canUser(userId, permission))

toJSONCall == Query("toJSON", toJSON)

NextLifecycle ==
    \/ \E name \in NameArgs, adminIdArg \in ConstructorAdminIdArgs :
           constructor(name, adminIdArg)
    \/ Constructed /\ Next
    \/ Constructed /\ \E userId \in UserIds : isAdminCall(userId)
    \/ Constructed /\ \E userId \in UserIds, permission \in PermissionArgs :
           canUserCall(userId, permission)
    \/ Constructed /\ toJSONCall

\* the life of one aggregate: construction, then mutators and queries
SpecLifecycle == InitNew /\ [][NextLifecycle]_vars

(* ------------------------------- claims ------------------------------- *)

Failed(op, e) == last' = [op |-> op, err |-> e]

Succeeded(op) == last' = [op |-> op, err |-> "NONE"]

AggregateUnchanged == UNCHANGED <<members, roles, resources, updatedAt>>

\* C1: the role name stored for every member (its roleId) is a key of the
\* roles map, in every state reachable by the mutators.
C1_MembersReferToRoles ==
    \A u \in DOMAIN members : MapHas(roles, members[u].roleId)

\* C2: the roles map holds a role under the name ADMIN in every reachable
\* state (no removeRole("ADMIN") ever succeeds).
C2_AdminRoleNeverRemoved == MapHas(roles, ADMIN)

\* C3: in every reachable state the members entry of adminId maps to the
\* role name ADMIN.
C3_AdminKeepsAdminRole ==
    MapHas(members, adminId) => members[adminId].roleId = ADMIN

\* C4: adminId is a key of members in every reachable state, and
\* removeMember(adminId) always fails with CANNOT_REMOVE_ADMIN, leaving the
\* members as they were.
C4_AdminAlwaysMember ==
    /\ [](MapHas(members, adminId))
    /\ [][removeMember(adminId) =>
            Failed("removeMember", "CANNOT_REMOVE_ADMIN") /\ members' = members]_vars

C4_Witness ==
    /\ last = [op |-> "removeMember", err |-> "CANNOT_REMOVE_ADMIN"]
    /\ MapHas(members, adminId)
    /\ Cardinality(DOMAIN members) > 1

C6_AdminRoleKeepsBaseline ==
    MapHas(roles, ADMIN) =>
        /\ hasPermission(roles[ADMIN], Permission(READ, ALL))
        /\ hasPermission(roles[ADMIN], Permission(WRITE, ALL))
        /\ hasPermission(roles[ADMIN], Permission(DELETE, ALL))

\* C7: no two Role objects held in the roles map have the same name.
C7_RoleNamesUnique ==
    \A k1, k2 \in DOMAIN roles : k1 # k2 => roles[k1].name # roles[k2].name

\* C8: a mutator that raises a domain error leaves members, roles,
\* resources and updatedAt exactly as they were before the call.
C8_FailedMutatorsAtomic ==
    [][last'.err # "NONE" => AggregateUnchanged]_vars

\* Scenario C: removeMember(adminId) has failed on a network that has been
\* mutated before (a second member, a second role, a resource).
C8_Witness ==
    /\ last = [op |-> "removeMember", err |-> "CANNOT_REMOVE_ADMIN"]
    /\ Cardinality(DOMAIN members) > 1
    /\ Cardinality(DOMAIN roles) > 1
    /\ resources # EmptyMap

C10_AssignRoleToUser ==
    [][last'.op = "assignRoleToUser" =>
       \A userId \in UserIds, roleName \in RoleNameArgs :
          assignRoleToUser(userId, roleName) =>
             /\ DOMAIN members' = DOMAIN members
             /\ IF ~MapHas(roles, toUpperCase(roleName))
                THEN Failed("assignRoleToUser", "ROLE_NOT_FOUND") /\ members' = members
                ELSE IF ~MapHas(members, userId)
                THEN Failed("assignRoleToUser", "USER_NOT_FOUND") /\ members' = members
                ELSE /\ Succeeded("assignRoleToUser")
                     /\ members'[userId] =
                           [userId |-> userId,
                            roleId |-> roles[toUpperCase(roleName)].name]
                     /\ roles' = roles /\ resources' = resources
                     /\ \A v \in DOMAIN members \ {userId} : members'[v] = members[v]]_vars

\* a non-admin member has just been reassigned while another non-admin
\* member and a non-ADMIN role exist
C10_Witness ==
    /\ last = [op |-> "assignRoleToUser", err |-> "NONE"]
    /\ Cardinality(DOMAIN members) = 3
    /\ MapHas(roles, NURSE)
    /\ \E u, v \in DOMAIN members :
          /\ u # adminId /\ v # adminId
          /\ members[u].roleId # members[v].roleId

\* C11: removeMember(userId) for a userId other than adminId fails with
\* USER_NOT_FOUND when userId is not a member and otherwise removes exactly
\* that member: every other member keeps its entry, roles and resources are
\* unchanged.
C11_RemoveMember ==
    [][last'.op = "removeMember" =>
       \A userId \in UserIds : (userId # adminId /\ removeMember(userId)) =>
          IF ~MapHas(members, userId)
          THEN Failed("removeMember", "USER_NOT_FOUND") /\ members' = members
          ELSE /\ Succeeded("removeMember")
               /\ DOMAIN members' = DOMAIN members \ {userId}
               /\ \A v \in DOMAIN members' : members'[v] = members[v]
               /\ roles' = roles /\ resources' = resources]_vars

\* a member has just been removed while another non-admin member stays
C11_Witness ==
    /\ last = [op |-> "removeMember", err |-> "NONE"]
    /\ Cardinality(DOMAIN members) = 2
    /\ \E u \in DOMAIN members : u # adminId /\ members[u].roleId = NURSE

Range(f) == {f[i] : i \in DOMAIN f}

\* C12: canUser(userId, p) never raises, writes nothing, and is true exactly
\* when userId is a member, the roleId stored for it is a key of roles and
\* that role holds a permission equal to p; there is no wildcard, so on a
\* freshly constructed network canUser(adminId, (READ, X)) is false for a
\* resource X other than ALL.
C12_CanUser ==
    /\ [][last'.op = "canUser" =>
          /\ last'.err = "NONE"
          /\ UNCHANGED <<adminId, members, roles, resources, createdAt, updatedAt>>
          /\ \A userId \in UserIds, p \in PermissionArgs :
                last'.result = canUser(userId, p) =>
                last'.result =
                   (/\ userId \in DOMAIN members
                    /\ members[userId].roleId \in DOMAIN roles
                    /\ \E i \in DOMAIN roles[members[userId].roleId].permissions :
                          roles[members[userId].roleId].permissions[i] = p)
       ]_vars
    /\ [](last = [op |-> "constructor", err |-> "NONE"] =>
             /\ canUser(adminId, Permission(READ, ALL))
             /\ ~canUser(adminId, Permission(READ, PATIENT_FILE)))

\* Scenario E: canUser has answered false in a network where a non-admin
\* member holds a role without permissions
C12_Witness ==
    /\ last.op = "canUser"
    /\ last.err = "NONE"
    /\ last.result = FALSE
    /\ \E u \in DOMAIN members :
          /\ u # adminId
          /\ MapHas(roles, members[u].roleId)
          /\ roles[members[u].roleId].permissions = <<>>
          /\ ~canUser(u, Permission(READ, PATIENT_FILE))

\* C13: new Network(id, name, adminId) fails with EMPTY_NAME for an empty
\* name (tested first) and with MISSING_ADMIN for an absent adminId;
\* otherwise roles is {ADMIN -> role with exactly (READ, ALL), (WRITE, ALL),
\* (DELETE, ALL)}, members is {adminId -> ADMIN} and there are no resources.
C13_Construction ==
    [][last.op = "new" =>
       \A name \in NameArgs, a \in ConstructorAdminIdArgs : constructor(name, a) =>
          IF name = <<>>
          THEN Failed("constructor", "EMPTY_NAME") /\ ~Constructed'
          ELSE IF a = ""
          THEN Failed("constructor", "MISSING_ADMIN") /\ ~Constructed'
          ELSE /\ Succeeded("constructor")
               /\ DOMAIN roles' = {ADMIN}
               /\ roles'[ADMIN].name = ADMIN
               /\ Len(roles'[ADMIN].permissions) = 3
               /\ Range(roles'[ADMIN].permissions) =
                     {[action |-> READ, resource |-> ALL],
                      [action |-> WRITE, resource |-> ALL],
                      [action |-> DELETE, resource |-> ALL]}
               /\ DOMAIN members' = {a}
               /\ members'[a] = [userId |-> a, roleId |-> ADMIN]
               /\ adminId' = a
               /\ resources' = EmptyMap]_vars

\* Scenario A: the constructor has just returned
C13_Witness ==
    /\ last = [op |-> "constructor", err |-> "NONE"]
    /\ adminId = "u1"
    /\ DOMAIN members = {"u1"}

\* C14: isAdmin(u) is true exactly when u is the adminId given at
\* construction; no step after construction changes adminId and isAdmin
\* writes nothing.
C14_IsAdmin ==
    /\ [][Constructed => adminId' = adminId]_vars
    /\ [](Constructed => adminId \in AdminIdArgs)
    /\ [][last'.op = "isAdmin" =>
          \A userId \in UserIds : isAdminCall(userId) =>
             /\ last'.err = "NONE"
             /\ last'.result = (userId = adminId)
             /\ UNCHANGED <<adminId, members, roles, resources, createdAt, updatedAt>>
       ]_vars

\* isAdmin has answered false while a user other than the admin holds the
\* role ADMIN
C14_Witness ==
    /\ last.op = "isAdmin"
    /\ last.err = "NONE"
    /\ last.result = FALSE
    /\ \E u \in DOMAIN members : u # adminId /\ members[u].roleId = ADMIN

MutatorOps ==
    {"addRole", "updateRole", "removeRole", "addMember", "removeMember",
     "assignRoleToUser", "addResource", "removeResource"}

\* C20: every successful mutator sets updatedAt to the clock value of the
\* call; failed mutators, the queries and the passing of time leave it
\* unchanged; createdAt never changes after construction and updatedAt is
\* never earlier than createdAt.
C20_Timestamps ==
    /\ [][Constructed =>
            /\ createdAt' = createdAt
            /\ IF now' = now /\ last'.op \in MutatorOps /\ last'.err = "NONE"
               THEN updatedAt' = now
               ELSE updatedAt' = updatedAt]_vars
    /\ [](Constructed => createdAt <= updatedAt)

\* a mutator has stamped a later time than the creation time, and a failed
\* call came after it at a still later time
C20_Witness ==
    /\ last.op \in MutatorOps /\ last.err # "NONE"
    /\ createdAt < updatedAt
    /\ updatedAt <= now
    /\ resources # EmptyMap

(* ------------------------------- errors ------------------------------- *)

BAD_REQUEST == 400
FORBIDDEN == 403
NOT_FOUND == 404
CONFLICT == 409
INTERNAL_SERVER_ERROR == 500

NetworkErrorHttpStatus ==
    [EMPTY_NAME |-> BAD_REQUEST,
     MISSING_ADMIN |-> BAD_REQUEST,
     ADMIN_NOT_FOUND |-> NOT_FOUND,
     DUPLICATE_NETWORK_NAME |-> CONFLICT,
     USER_NOT_FOUND |-> NOT_FOUND,
     USER_ALREADY_IN_NETWORK |-> CONFLICT,
     CANNOT_REMOVE_ADMIN |-> FORBIDDEN,
     RESOURCE_NOT_FOUND |-> NOT_FOUND,
     NAME_ALREADY_USED |-> CONFLICT,
     DATABASE_ERROR |-> INTERNAL_SERVER_ERROR,
     UNEXPECTED_ERROR |-> INTERNAL_SERVER_ERROR,
     MISSING_NETWORK_ID |-> BAD_REQUEST,
     NETWORK_NOT_FOUND |-> NOT_FOUND,
     INVALID_NETWORK_ID |-> BAD_REQUEST,
     NOT_ALLOWED_TO_PERFORM_ACTION_IN_NETWORK |-> FORBIDDEN]

RoleErrorType ==
    {"EMPTY_ROLE_NAME", "INVALID_ROLE_NAME_FORMAT", "DUPLICATE_PERMISSION",
     "PERMISSION_NOT_FOUND", "DUPLICATE_ROLE", "ROLE_NOT_FOUND", "ROLE_IN_USE"}

\* new DomainError(type, mapTypeToStatus)
DomainError(type, mapTypeToStatus) ==
    [type |-> type, statusCode |-> mapTypeToStatus[type]]

NetworkError(type) == DomainError(type, NetworkErrorHttpStatus)

\* RoleError extends Error: the object has a type and no statusCode
RoleError(type) == [type |-> type]

\* the error object behind the kind recorded by the last failed call
Thrown(e) == IF e \in RoleErrorType THEN RoleError(e) ELSE NetworkError(e)

\* useCaseErrorHandler: the status sent for an error caught at the boundary
useCaseErrorHandler(error) ==
    IF "statusCode" \in DOMAIN error
    THEN error.statusCode
    ELSE INTERNAL_SERVER_ERROR

\* the status categories of the taxonomy, as status codes
Taxonomy ==
    [EMPTY_NAME |-> BAD_REQUEST, MISSING_ADMIN |-> BAD_REQUEST,
     DUPLICATE_ROLE |-> CONFLICT, USER_ALREADY_IN_NETWORK |-> CONFLICT,
     ROLE_NOT_FOUND |-> NOT_FOUND, USER_NOT_FOUND |-> NOT_FOUND,
     RESOURCE_NOT_FOUND |-> NOT_FOUND,
     ROLE_IN_USE |-> FORBIDDEN, CANNOT_REMOVE_ADMIN |-> FORBIDDEN]

\* C19: every domain error raised by an operation carries a machine-readable
\* kind and the status category the taxonomy gives for that kind
\* (bad-request, conflict, not-found or forbidden).
C19_ErrorsCarryStatus ==
    last.err # "NONE" =>
       LET error == Thrown(last.err) IN
          /\ error.type = last.err
          /\ "statusCode" \in DOMAIN error
          /\ error.statusCode = Taxonomy[last.err]

(* ------------------- Role and Permission on their own ------------------ *)

MaxLen == 2

\* the Permission objects put into lists
PermissionObjects == {Permission(READ, ALL), Permission(WRITE, ALL)}

\* the strings written to Role.name
NameWrites == {<<>>, ADMIN, nursePadded, n1}

\* the strings written to Permission.action and Permission.resource
ActionWrites == {<<>>, READ, write, n1}

ResourceWrites == {<<>>, allPadded, <<" ">>}

\* the strings two Permissions are built from before they are compared
EqualsActionArgs == {READ, read, readPadded, WRITE, write, DELETE}

EqualsResourceArgs == {ALL, all, allPadded, DOC, doc}

\* the kind of the error validateName throws, NONE when it returns
validateNameError(name) ==
    IF name = <<>> THEN "EMPTY_ROLE_NAME"
    ELSE IF ~testUpperUnderscore(trim(toUpperCase(name)))
    THEN "INVALID_ROLE_NAME_FORMAT"
    ELSE "NONE"

validateActionError(action) ==
    IF action = <<>> THEN "EMPTY_ACTION"
    ELSE IF ~testUpperUnderscore(trim(toUpperCase(action)))
    THEN "INVALID_ACTION_FORMAT"
    ELSE "NONE"

validateResourceError(resource) ==
    IF resource = <<>> THEN "EMPTY_RESOURCE"
    ELSE IF ~testUpperUnderscore(trim(toUpperCase(resource)))
    THEN "INVALID_RESOURCE_FORMAT"
    ELSE "NONE"

\* validateName, validateAction and validateResource over the strings written
WriteStrings ==
    NameWrites \cup ActionWrites \cup ResourceWrites
       \cup EqualsActionArgs \cup EqualsResourceArgs

nameError == [name \in WriteStrings |-> validateNameError(name)]

actionError == [action \in WriteStrings |-> validateActionError(action)]

resourceError == [resource \in WriteStrings |-> validateResourceError(resource)]

validated == [s \in WriteStrings |-> trim(toUpperCase(s))]

\* a new array: one that nothing in `live` refers to
alloc(live) == CHOOSE r \in Refs : r \notin live

\* arrays nothing refers to any more are dropped
collect(h, live) == [r \in Refs |-> IF r \in live THEN h[r] ELSE <<>>]

\* [...array]
spread(array) == [i \in 1..Len(array) |-> array[i]]

\* array.filter(p => !p.equals(permission))
filterNotEquals(array, permission) ==
    SelectSeq(array, LAMBDA q : ~equals(q, permission))

\* the role with its _permissions array read from memory
deref(r) == [name |-> r.name, permissions |-> heap[r.permissions]]

ObjThrow(op, e) ==
    /\ last' = [op |-> op, err |-> e]
    /\ UNCHANGED network
    /\ UNCHANGED application

ObjReturn(op) ==
    /\ last' = [op |-> op, err |-> "NONE"]
    /\ UNCHANGED network
    /\ UNCHANGED application

\* the caller's own list.push(p)
push(p) ==
    /\ Len(heap[list]) < MaxLen
    /\ heap' = [heap EXCEPT ![list] = Append(@, p)]
    /\ UNCHANGED <<list, roleObj, permissionObj>>
    /\ ObjReturn("push")

\* the caller's own list.pop()
pop ==
    /\ Len(heap[list]) > 0
    /\ heap' = [heap EXCEPT ![list] = SubSeq(@, 1, Len(@) - 1)]
    /\ UNCHANGED <<list, roleObj, permissionObj>>
    /\ ObjReturn("pop")

\* a Role constructor that keeps the caller's array
RoleConstructor_Alias(name) ==
    IF nameError[name] # "NONE"
    THEN ObjThrow("Role", nameError[name]) /\ UNCHANGED objects
    ELSE /\ roleObj' = [name |-> validated[name], permissions |-> list]
         /\ heap' = collect(heap, {list})
         /\ UNCHANGED <<list, permissionObj>>
         /\ ObjReturn("Role")

\* roleObj = new Role(name, list)
RoleConstructor(name) ==
    IF nameError[name] # "NONE"
    THEN ObjThrow("Role", nameError[name]) /\ UNCHANGED objects
    ELSE LET ref == alloc({list}) IN
         /\ roleObj' = [name |-> validated[name], permissions |-> ref]
         /\ heap' = collect([heap EXCEPT ![ref] = spread(heap[list])], {list, ref})
         /\ UNCHANGED <<list, permissionObj>>
         /\ ObjReturn("Role")

\* roleObj.name = newName
setName(newName) ==
    /\ roleObj # NoRole
    /\ IF nameError[newName] # "NONE"
       THEN ObjThrow("setName", nameError[newName]) /\ UNCHANGED objects
       ELSE /\ roleObj' = [roleObj EXCEPT !.name = validated[newName]]
            /\ UNCHANGED <<heap, list, permissionObj>>
            /\ ObjReturn("setName")

\* list = roleObj.permissions
getPermissions ==
    /\ roleObj # NoRole
    /\ LET ref == alloc({list, roleObj.permissions}) IN
       /\ list' = ref
       /\ heap' = collect([heap EXCEPT ![ref] = spread(heap[roleObj.permissions])],
                          {ref, roleObj.permissions})
    /\ UNCHANGED <<roleObj, permissionObj>>
    /\ ObjReturn("getPermissions")

\* roleObj.addPermission(p)
addPermission(p) ==
    /\ roleObj # NoRole
    /\ IF hasPermission(deref(roleObj), p)
       THEN ObjThrow("addPermission", "DUPLICATE_PERMISSION") /\ UNCHANGED objects
       ELSE /\ Len(heap[roleObj.permissions]) < MaxLen
            /\ heap' = [heap EXCEPT ![roleObj.permissions] = Append(@, p)]
            /\ UNCHANGED <<list, roleObj, permissionObj>>
            /\ ObjReturn("addPermission")

\* roleObj.removePermission(p): _permissions is assigned the filtered array
\* before the lengths are compared
removePermission(p) ==
    /\ roleObj # NoRole
    /\ LET before == Len(heap[roleObj.permissions])
           filtered == filterNotEquals(heap[roleObj.permissions], p)
           ref == alloc({list, roleObj.permissions})
       IN /\ roleObj' = [roleObj EXCEPT !.permissions = ref]
          /\ heap' = collect([heap EXCEPT ![ref] = filtered], {list, ref})
          /\ UNCHANGED <<list, permissionObj>>
          /\ IF Len(filtered) = before
             THEN ObjThrow("removePermission", "PERMISSION_NOT_FOUND")
             ELSE ObjReturn("removePermission")

\* roleObj.replacePermissions(list)
replacePermissions ==
    /\ roleObj # NoRole
    /\ LET ref == alloc({list, roleObj.permissions}) IN
       /\ roleObj' = [roleObj EXCEPT !.permissions = ref]
       /\ heap' = collect([heap EXCEPT ![ref] = spread(heap[list])], {list, ref})
    /\ UNCHANGED <<list, permissionObj>>
    /\ ObjReturn("replacePermissions")

\* permissionObj = new Permission(action, resource)
PermissionConstructor(action, resource) ==
    IF actionError[action] # "NONE"
    THEN ObjThrow("Permission", actionError[action]) /\ UNCHANGED objects
    ELSE IF resourceError[resource] # "NONE"
    THEN ObjThrow("Permission", resourceError[resource]) /\ UNCHANGED objects
    ELSE /\ permissionObj' = [action |-> validated[action],
                              resource |-> validated[resource]]
         /\ UNCHANGED <<heap, list, roleObj>>
         /\ ObjReturn("Permission")

\* an action setter that stores what it is given
setAction_NoValidation(newAction) ==
    /\ permissionObj # NoPermission
    /\ permissionObj' = [permissionObj EXCEPT !.action = newAction]
    /\ UNCHANGED <<heap, list, roleObj>>
    /\ ObjReturn("setAction")

\* permissionObj.action = newAction
setAction(newAction) ==
    /\ permissionObj # NoPermission
    /\ IF actionError[newAction] # "NONE"
       THEN ObjThrow("setAction", actionError[newAction]) /\ UNCHANGED objects
       ELSE /\ permissionObj' = [permissionObj EXCEPT !.action = validated[newAction]]
            /\ UNCHANGED <<heap, list, roleObj>>
            /\ ObjReturn("setAction")

\* permissionObj.resource = newResource
setResource(newResource) ==
    /\ permissionObj # NoPermission
    /\ IF resourceError[newResource] # "NONE"
       THEN ObjThrow("setResource", resourceError[newResource])
            /\ UNCHANGED objects
       ELSE /\ permissionObj' =
                  [permissionObj EXCEPT !.resource = validated[newResource]]
            /\ UNCHANGED <<heap, list, roleObj>>
            /\ ObjReturn("setResource")

NextObjects ==
    \/ \E p \in PermissionObjects : push(p)
    \/ pop
    \/ \E name \in NameWrites : RoleConstructor(name)
    \/ \E newName \in NameWrites : setName(newName)
    \/ getPermissions
    \/ \E p \in PermissionObjects : addPermission(p)
    \/ \E p \in PermissionObjects : removePermission(p)
    \/ replacePermissions
    \/ \E action \in ActionWrites, resource \in ResourceWrites :
           PermissionConstructor(action, resource)
    \/ \E newAction \in ActionWrites : setAction(newAction)
    \/ \E newResource \in ResourceWrites : setResource(newResource)

\* one Role, one Permission and one caller-held list, used directly
SpecObjects == InitNew /\ [][NextObjects]_vars

\* the permissions the role stores
stored == heap[roleObj.permissions]

\* C15: no two permissions stored in a role are structurally equal, in
\* every state reached by constructing a Role with any initial list and then
\* applying addPermission, removePermission and replacePermissions; and
\* addPermission(p) fails with DUPLICATE_PERMISSION when an equal permission
\* is stored.
C15_NoEqualPermissions ==
    /\ roleObj # NoRole =>
          \A i, j \in DOMAIN stored : i # j => ~equals(stored[i], stored[j])
    /\ (last = [op |-> "addPermission", err |-> "NONE"]) =>
          \A i \in 1..Len(stored) - 1 : ~equals(stored[i], stored[Len(stored)])

\* array without the element at index i
removeAt(array, i) == SubSeq(array, 1, i - 1) \o SubSeq(array, i + 1, Len(array))

\* C16: removePermission(p) fails with PERMISSION_NOT_FOUND and leaves the
\* role unchanged when no stored permission equals p; otherwise it removes
\* exactly one stored permission equal to p, the count drops by exactly one
\* and every other stored permission stays in place.
C16_RemovePermission ==
    [][last'.op = "removePermission" =>
       \A p \in PermissionObjects : removePermission(p) =>
          IF ~\E i \in DOMAIN stored : equals(stored[i], p)
          THEN /\ Failed("removePermission", "PERMISSION_NOT_FOUND")
               /\ stored' = stored
               /\ roleObj'.name = roleObj.name
          ELSE /\ Succeeded("removePermission")
               /\ Len(stored') = Len(stored) - 1
               /\ \E i \in DOMAIN stored :
                     equals(stored[i], p) /\ stored' = removeAt(stored, i)
               /\ roleObj'.name = roleObj.name]_vars

\* non-empty, upper-case and matching [A-Z_]+
WellFormed(s) ==
    /\ s # <<>>
    /\ \A i \in 1..Len(s) : s[i] \in UpperLetters \cup {"_"}

\* the written strings that are empty, or do not match [A-Z_]+ once
\* upper-cased and trimmed
RejectedWrites ==
    {s \in WriteStrings : s = <<>> \/ ~WellFormed(trim(toUpperCase(s)))}

Rejected(s) == s \in RejectedWrites

\* the written strings upper-cased and trimmed
UpperTrimmed == [s \in WriteStrings |-> trim(toUpperCase(s))]

\* C17: every existing Permission's action and resource and every Role's
\* name is non-empty, upper-case and matches [A-Z_]+ after any sequence of
\* constructions and field rewrites; a write (constructor, action setter,
\* resource setter, name setter) of an empty or non-matching value raises
\* the validation error of that field (EMPTY_... for the empty string,
\* INVALID_..._FORMAT otherwise) and leaves every field of the object as it
\* was; a write of any other value stores the upper-cased, trimmed value.
C17_ValidationOnEveryWrite ==
    /\ [](permissionObj # NoPermission =>
             WellFormed(permissionObj.action) /\ WellFormed(permissionObj.resource))
    /\ [](roleObj # NoRole => WellFormed(roleObj.name))
    /\ [](\A r \in Refs : \A i \in DOMAIN heap[r] :
             WellFormed(heap[r][i].action) /\ WellFormed(heap[r][i].resource))
    /\ [][last'.op = "setAction" =>
          \A a \in ActionWrites : setAction(a) =>
             IF Rejected(a)
             THEN /\ last'.err \in {"EMPTY_ACTION", "INVALID_ACTION_FORMAT"}
                  /\ (last'.err = "EMPTY_ACTION") = (a = <<>>)
                  /\ permissionObj' = permissionObj
             ELSE /\ last'.err = "NONE"
                  /\ permissionObj'.action = UpperTrimmed[a]
                  /\ permissionObj'.resource = permissionObj.resource]_vars
    /\ [][last'.op = "setResource" =>
          \A a \in ResourceWrites : setResource(a) =>
             IF Rejected(a)
             THEN /\ last'.err \in {"EMPTY_RESOURCE", "INVALID_RESOURCE_FORMAT"}
                  /\ (last'.err = "EMPTY_RESOURCE") = (a = <<>>)
                  /\ permissionObj' = permissionObj
             ELSE /\ last'.err = "NONE"
                  /\ permissionObj'.resource = UpperTrimmed[a]
                  /\ permissionObj'.action = permissionObj.action]_vars
    /\ [][last'.op = "setName" =>
          \A a \in NameWrites : setName(a) =>
             IF Rejected(a)
             THEN /\ last'.err \in {"EMPTY_ROLE_NAME", "INVALID_ROLE_NAME_FORMAT"}
                  /\ (last'.err = "EMPTY_ROLE_NAME") = (a = <<>>)
                  /\ roleObj' = roleObj /\ stored' = stored
             ELSE /\ last'.err = "NONE"
                  /\ roleObj'.name = UpperTrimmed[a]
                  /\ stored' = stored]_vars
    /\ [][last'.op = "Permission" =>
          \A a \in ActionWrites, r \in ResourceWrites :
             PermissionConstructor(a, r) =>
                IF Rejected(a) \/ Rejected(r)
                THEN /\ last'.err \in {"EMPTY_ACTION", "INVALID_ACTION_FORMAT",
                                       "EMPTY_RESOURCE", "INVALID_RESOURCE_FORMAT"}
                     /\ permissionObj' = permissionObj
                ELSE /\ last'.err = "NONE"
                     /\ permissionObj' = [action |-> UpperTrimmed[a],
                                          resource |-> UpperTrimmed[r]]]_vars
    /\ [][last'.op = "Role" =>
          \A a \in NameWrites : RoleConstructor(a) =>
             IF Rejected(a)
             THEN /\ last'.err \in {"EMPTY_ROLE_NAME", "INVALID_ROLE_NAME_FORMAT"}
                  /\ roleObj' = roleObj
             ELSE /\ last'.err = "NONE"
                  /\ roleObj'.name = UpperTrimmed[a]]_vars

\* a rejected write came after an accepted one: the Permission still has
\* the action written before it
C17_Witness ==
    /\ last = [op |-> "setAction", err |-> "INVALID_ACTION_FORMAT"]
    /\ permissionObj = [action |-> WRITE, resource |-> ALL]
    /\ roleObj # NoRole /\ roleObj.name = NURSE

\* C18: the Role copies permission lists: after new Role(name, list) or
\* replacePermissions(list), and for the array the permissions getter
\* returned, adding to or removing from the caller's array does not change
\* the permissions the role stores.
C18_DefensiveCopies ==
    /\ [][last'.op \in {"push", "pop"} =>
             /\ heap'[list] # heap[list]
             /\ roleObj' = roleObj
             /\ roleObj # NoRole => stored' = stored]_vars
    /\ [](roleObj # NoRole => roleObj.permissions # list)
    /\ [][last'.op \in {"Role", "replacePermissions"} /\ last'.err = "NONE" =>
             stored' = heap[list] /\ heap'[list'] = heap[list]]_vars
    /\ [][last'.op = "getPermissions" =>
             heap'[list'] = stored /\ stored' = stored]_vars

\* the caller has pushed onto the list it gave to the role: the list has
\* two permissions, the role still has one
C18_Witness ==
    /\ last = [op |-> "push", err |-> "NONE"]
    /\ roleObj # NoRole
    /\ Len(heap[list]) = 2
    /\ stored = SubSeq(heap[list], 1, 1)

(* ------------------------- resources and access ------------------------ *)

\* resource ids: one that normalises to ALL, one that is no valid
\* Permission resource
ResourceIdArgs == {all, r1}

ResourceNameArgs == {"chart", "scan"}

\* the role names given to addMember when ADMIN is the only role
MemberRoleArgs == {ADMIN, nurse}

\* Network.canAccessResource: new Permission("READ", resourceId) is built
\* only for a stored resource whose owner is another user
canAccessResourceError(userId, resourceId) ==
    IF ~MapHas(resources, resourceId) THEN "NONE"
    ELSE IF resources[resourceId].ownerId = userId THEN "NONE"
    ELSE validateResourceError(resourceId)

canAccessResource(userId, resourceId) ==
    IF ~MapHas(resources, resourceId) THEN FALSE
    ELSE IF resources[resourceId].ownerId = userId THEN TRUE
    ELSE canUser(userId, Permission(READ, resourceId))

canAccessResourceCall(userId, resourceId) ==
    IF canAccessResourceError(userId, resourceId) # "NONE"
    THEN Throw("canAccessResource", canAccessResourceError(userId, resourceId))
    ELSE Query("canAccessResource", canAccessResource(userId, resourceId))

NextResources ==
    \/ \E userId \in UserIds, roleName \in MemberRoleArgs : addMember(userId, roleName)
    \/ \E userId \in UserIds : removeMember(userId)
    \/ \E resourceId \in ResourceIdArgs, name \in ResourceNameArgs, ownerId \in UserIds :
           addResource(resourceId, name, ownerId)
    \/ \E resourceId \in ResourceIdArgs : removeResource(resourceId)
    \/ \E userId \in UserIds, resourceId \in ResourceIdArgs :
           canAccessResourceCall(userId, resourceId)

\* members and resources of one network, and the access query over them
SpecResources == Init /\ [][NextResources]_vars

\* C21: addResource(r, n, o) never fails and leaves exactly (n, o) under r
\* whether or not r was stored before, every other resource entry, members
\* and roles unchanged; removeResource(r) succeeds for a stored r (so also
\* right after addResource(r, ..)) and removes only r, and fails with
\* RESOURCE_NOT_FOUND for an absent id.
C21_AddResourceLastWriteWins ==
    /\ [][last'.op = "addResource" =>
          \A r \in ResourceIdArgs, n \in ResourceNameArgs, o \in UserIds :
             addResource(r, n, o) =>
                /\ Succeeded("addResource")
                /\ DOMAIN resources' = DOMAIN resources \cup {r}
                /\ resources'[r] = [name |-> n, ownerId |-> o]
                /\ \A other \in DOMAIN resources \ {r} :
                      resources'[other] = resources[other]
                /\ members' = members /\ roles' = roles]_vars
    /\ [][last'.op = "removeResource" =>
          \A r \in ResourceIdArgs : removeResource(r) =>
             IF r \in DOMAIN resources
             THEN /\ Succeeded("removeResource")
                  /\ DOMAIN resources' = DOMAIN resources \ {r}
                  /\ \A other \in DOMAIN resources' :
                        resources'[other] = resources[other]
                  /\ members' = members /\ roles' = roles
             ELSE /\ Failed("removeResource", "RESOURCE_NOT_FOUND")
                  /\ resources' = resources]_vars

\* addResource has returned with two resources stored, which have
\* different names and owners
C21_Witness ==
    /\ last = [op |-> "addResource", err |-> "NONE"]
    /\ DOMAIN resources = ResourceIdArgs
    /\ resources[all].name # resources[r1].name
    /\ resources[all].ownerId # resources[r1].ownerId

\* C29: canAccessResource(user, resourceId) returns true or false for every
\* user and every resourceId, stored or not and whatever its format, without
\* raising.
C29_CanAccessResourceTotal ==
    last.op = "canAccessResource" =>
       /\ last.err = "NONE"
       /\ last.result \in BOOLEAN

\* C30: canAccessResource(user, resourceId) is true only for a user who is
\* currently a key of members, in every state reached by addMember,
\* removeMember, addResource and removeResource.
C30_AccessOnlyForMembers ==
    \A userId \in UserIds, resourceId \in ResourceIdArgs :
       (/\ canAccessResourceError(userId, resourceId) = "NONE"
        /\ canAccessResource(userId, resourceId))
          => userId \in DOMAIN members

(* ------------------------------ snapshot ------------------------------ *)

\* the set of the elements of an array
Elements(array) == {array[i] : i \in DOMAIN array}

\* C22: toJSON writes nothing and its snapshot determines the aggregate: it
\* lists exactly one (userId, role name) pair per member, one role entry
\* (name and permissions) per entry of roles and one entry per resource, so
\* that members, roles and resources rebuilt from it are those the
\* aggregate holds.
C22_SnapshotDeterminesAggregate ==
    LET snapshot == toJSON IN
    /\ Len(snapshot.members) = Cardinality(DOMAIN members)
    /\ {<<m.userId, m.roleId>> : m \in Elements(snapshot.members)}
          = {<<u, members[u].roleId>> : u \in DOMAIN members}
    /\ Len(snapshot.roles) = Cardinality(DOMAIN roles)
    /\ {<<r.name, r.permissions>> : r \in Elements(snapshot.roles)}
          = {<<k, roles[k].permissions>> : k \in DOMAIN roles}
    /\ Len(snapshot.resources) = Cardinality(DOMAIN resources)
    /\ {<<r.id, r.name, r.ownerId>> : r \in Elements(snapshot.resources)}
          = {<<k, resources[k].name, resources[k].ownerId>> : k \in DOMAIN resources}

(* ------------------------- Permission.equals -------------------------- *)

\* other = new Permission(action, resource); permissionObj.equals(other)
\* and other.equals(permissionObj)
equalsCall(action, resource) ==
    /\ permissionObj # NoPermission
    /\ actionError[action] = "NONE"
    /\ resourceError[resource] = "NONE"
    /\ LET other == Permission(action, resource) IN
       last' = [op |-> "equals", err |-> "NONE",
                result |-> equals(permissionObj, other),
                reverse |-> equals(other, permissionObj),
                self |-> equals(other, other),
                args |-> <<action, resource>>]
    /\ UNCHANGED network
    /\ UNCHANGED objects
    /\ UNCHANGED application

NextEquals ==
    \/ \E action \in EqualsActionArgs, resource \in EqualsResourceArgs :
           PermissionConstructor(action, resource)
    \/ \E action \in EqualsActionArgs, resource \in EqualsResourceArgs :
           equalsCall(action, resource)

\* two Permissions built from strings in any case and padding, compared
SpecEquals == InitNew /\ [][NextEquals]_vars

\* C23: Permission.equals is reflexive and symmetric, and p1.equals(p2) is
\* true exactly when the trimmed, upper-cased action and resource the two
\* were built from are identical.
C23_Equals ==
    /\ permissionObj # NoPermission => equals(permissionObj, permissionObj)
    /\ last.op = "equals" =>
          /\ last.self
          /\ last.result = last.reverse
          /\ last.result =
                (/\ permissionObj.action = trim(toUpperCase(last.args[1]))
                 /\ permissionObj.resource = trim(toUpperCase(last.args[2])))

\* a Permission built from lower-case strings was found equal to one built
\* from upper-case strings
C23_Witness ==
    /\ last.op = "equals"
    /\ last.args = <<read, all>>
    /\ last.result
    /\ permissionObj = [action |-> READ, resource |-> ALL]

(* ---------------------- values handed to callers ---------------------- *)

\* a caller's write on a value the aggregate handed out: no method of the
\* aggregate runs, so updatedAt is not written
External(op) ==
    /\ last' = [op |-> op, err |-> "NONE"]
    /\ UNCHANGED <<adminId, createdAt, updatedAt, now>>
    /\ UNCHANGED objects
    /\ UNCHANGED application

\* network.members.delete(userId): the getter returns this._members itself
membersDelete(userId) ==
    /\ members' = MapDelete(members, userId)
    /\ UNCHANGED <<roles, resources>>
    /\ External("members.delete")

\* network.roles.delete(roleName): the getter returns this._roles itself
rolesDelete(roleName) ==
    /\ roles' = MapDelete(roles, roleName)
    /\ UNCHANGED <<members, resources>>
    /\ External("roles.delete")

\* network.resources.clear(): the getter returns this._resources itself
resourcesClear ==
    /\ resources' = EmptyMap
    /\ UNCHANGED <<members, roles>>
    /\ External("resources.clear")

\* network.toJSON().members[i].roleId = roleId: Array.from(values()) lists
\* the objects stored in this._members, here the one of userId
snapshotMemberWrite(userId, roleId) ==
    /\ MapHas(members, userId)
    /\ members' = [members EXCEPT ![userId].roleId = roleId]
    /\ UNCHANGED <<roles, resources>>
    /\ External("toJSON.members.write")

ExternalOps ==
    {"members.delete", "roles.delete", "resources.clear", "toJSON.members.write"}

NextExternal ==
    \/ \E userId \in UserIds, roleName \in MemberRoleArgs : addMember(userId, roleName)
    \/ \E resourceId \in ResourceIdArgs, name \in ResourceNameArgs, ownerId \in UserIds :
           addResource(resourceId, name, ownerId)
    \/ \E userId \in UserIds : membersDelete(userId)
    \/ \E roleName \in RoleNameArgs : rolesDelete(roleName)
    \/ resourcesClear
    \/ \E userId \in UserIds, roleId \in RoleNameArgs : snapshotMemberWrite(userId, roleId)

\* a network whose caller writes on the maps and the snapshot it was handed
SpecExternal == Init /\ [][NextExternal]_vars

\* C24: after a caller modifies a value handed out by the aggregate (the
\* maps returned by the members, roles and resources accessors, the entries
\* of the toJSON snapshot), the aggregate's members, roles and resources are
\* the same as before.
C24_NoExternalMutation ==
    [][last'.op \in ExternalOps => UNCHANGED <<members, roles, resources>>]_vars

\* C25: role-name lookup is case-normalized in every operation that takes a
\* role name: when a role is stored under the upper-cased form of n, none of
\* updateRole(n, r), removeRole(n), addMember(u, n) and
\* assignRoleToUser(u, n) reports ROLE_NOT_FOUND.
C25_RoleLookupCaseNormalized ==
    [][\A n \in RoleNameArgs : MapHas(roles, toUpperCase(n)) =>
          /\ \A newRole \in RoleArgs :
                updateRole(n, newRole) => last'.err # "ROLE_NOT_FOUND"
          /\ removeRole(n) => last'.err # "ROLE_NOT_FOUND"
          /\ \A userId \in UserIds :
                /\ addMember(userId, n) => last'.err # "ROLE_NOT_FOUND"
                /\ assignRoleToUser(userId, n) => last'.err # "ROLE_NOT_FOUND"]_vars

(* ----------------------------- use cases ------------------------------ *)

\* an execute call is started only while fewer networks than this are stored
MaxNetworks == 2

\* the users userRepository.findById finds
StoredUsers == {"u1", "u2"}

\* ICreateNetworkDTO; "" is an absent adminId and "u3" is no stored user
CreateNetworkArgs == [name : NameArgs, adminId : {"", "u1", "u3"}]

\* IUpdateNetworkRequestDTO; networkId 0 is an absent id, name <<>> an
\* absent name
UpdateNetworkArgs ==
    [networkId : 0..MaxNetworks, name : {<<"B">>}, adminId : {"u1", "u2"}]

\* IDeleteNetworkDTO
DeleteNetworkArgs == [networkId : 1..MaxNetworks, adminId : {"u1", "u2"}]

\* new NetworkError(type): a NetworkError carries no code
NetworkErrorOf(type) == [type |-> type, code |-> "undefined"]

\* what a repository enforcing unique names rejects a write with
UniqueConstraintError == [type |-> "PrismaClientKnownRequestError", code |-> "P2002"]

Failure(error) == [success |-> FALSE, error |-> error]

Success == [success |-> TRUE, error |-> "NONE"]

\* the catch block of CreateNetworkUseCase.execute
CreateNetworkUseCase_catch(err) ==
    IF err.code \in {"P2002", "23505", "ER_DUP_ENTRY", "SQLITE_CONSTRAINT"}
    THEN Failure("DATABASE_ERROR")
    ELSE Failure("UNEXPECTED_ERROR")

\* userRepository.findById(id): the user's uuid, "" for null
findById(id) == IF id \in StoredUsers THEN id ELSE ""

\* networkRepository.findNetworkByName(name)
findNetworkByName(name) ==
    IF \E row \in networkRepository : row.name = name
    THEN CHOOSE row \in networkRepository : row.name = name
    ELSE NoNetwork

\* networkRepository.findNetworkById(id)
findNetworkById(id) ==
    IF \E row \in networkRepository : row.uuid = id
    THEN CHOOSE row \in networkRepository : row.uuid = id
    ELSE NoNetwork

\* the uuids of the stored networks and of the networks being created
UsedUuids ==
    {row.uuid : row \in networkRepository} \cup
    {calls[c].network.uuid : c \in CallIds}

\* Bun.randomUUIDv7(): a uuid no network has
randomUUIDv7 ==
    CHOOSE u \in 1..(MaxNetworks + 2 * Cardinality(CallIds)) :
        u \notin UsedUuids /\ \A v \in 1..(u - 1) : v \in UsedUuids

\* the state of an execute call, with the local constants of its body
Call(useCase, pc, data) ==
    [NoCall EXCEPT !.useCase = useCase, !.pc = pc, !.data = data]

\* the promise of execute resolves with result
Resolve(c, call, result) ==
    calls' = [calls EXCEPT ![c] = [call EXCEPT !.pc = "done", !.result = result]]

\* a step of a use case touches no aggregate held in memory
UseCaseStep ==
    /\ UNCHANGED network
    /\ UNCHANGED objects
    /\ UNCHANGED last

\* CreateNetworkUseCase.execute(data) up to await userRepository.findById
CreateNetworkUseCase_execute(c, data) ==
    /\ calls[c] = NoCall
    /\ Cardinality(networkRepository) < MaxNetworks
    /\ LET call == Call("CreateNetworkUseCase", "findById", data)
       IN IF data.name = <<>>
          THEN Resolve(c, call, CreateNetworkUseCase_catch(NetworkErrorOf("EMPTY_NAME")))
          ELSE IF data.adminId = ""
          THEN Resolve(c, call, CreateNetworkUseCase_catch(NetworkErrorOf("MISSING_ADMIN")))
          ELSE calls' = [calls EXCEPT ![c] = call]
    /\ UNCHANGED networkRepository
    /\ UseCaseStep

\* from the result of findById up to await findNetworkByName
CreateNetworkUseCase_afterFindById(c) ==
    /\ calls[c].useCase = "CreateNetworkUseCase"
    /\ calls[c].pc = "findById"
    /\ LET call == [calls[c] EXCEPT !.admin = findById(calls[c].data.adminId)]
       IN IF call.admin = ""
          THEN Resolve(c, call, CreateNetworkUseCase_catch(NetworkErrorOf("ADMIN_NOT_FOUND")))
          ELSE calls' = [calls EXCEPT ![c] = [call EXCEPT !.pc = "findNetworkByName"]]
    /\ UNCHANGED networkRepository
    /\ UseCaseStep

\* from the result of findNetworkByName up to await networkRepository.create
CreateNetworkUseCase_afterFindNetworkByName(c) ==
    /\ calls[c].useCase = "CreateNetworkUseCase"
    /\ calls[c].pc = "findNetworkByName"
    /\ LET call == [calls[c] EXCEPT
                       !.existingNetwork = findNetworkByName(calls[c].data.name)]
       IN IF call.existingNetwork # NoNetwork
          THEN Resolve(c, call,
                       CreateNetworkUseCase_catch(NetworkErrorOf("DUPLICATE_NETWORK_NAME")))
          ELSE calls' = [calls EXCEPT ![c] =
                   [call EXCEPT !.pc = "create", !.create = TRUE,
                                !.network = [uuid |-> randomUUIDv7,
                                             name |-> call.data.name,
                                             adminId |-> call.admin]]]
    /\ UNCHANGED networkRepository
    /\ UseCaseStep

\* networkRepository.create(network) and the rest of execute: the
\* repository stores the network, or rejects it when it enforces unique
\* names and the name is taken
CreateNetworkUseCase_afterCreate(c) ==
    /\ calls[c].useCase = "CreateNetworkUseCase"
    /\ calls[c].pc = "create"
    /\ \/ /\ networkRepository' = networkRepository \cup {calls[c].network}
          /\ Resolve(c, calls[c], Success)
       \/ /\ findNetworkByName(calls[c].network.name) # NoNetwork
          /\ UNCHANGED networkRepository
          /\ Resolve(c, calls[c], CreateNetworkUseCase_catch(UniqueConstraintError))
    /\ UseCaseStep

\* networkRepository.updateNetwork(id, data): the fields data carries are
\* written on the stored network
updateNetwork(id, data) ==
    networkRepository' =
        {IF row.uuid = id
         THEN [row EXCEPT !.name = IF data.name = <<>> THEN @ ELSE data.name,
                          !.adminId = data.adminId]
         ELSE row : row \in networkRepository}

\* networkRepository.deleteNetwork(id)
deleteNetwork(id) ==
    networkRepository' = {row \in networkRepository : row.uuid # id}

\* UpdateNetworkUseCase.execute(data)
UpdateNetworkUseCase_execute(c, data) ==
    /\ calls[c] = NoCall
    /\ LET existingNetwork == findNetworkById(data.networkId)
           call == [Call("UpdateNetworkUseCase", "done", data) EXCEPT
                       !.existingNetwork = existingNetwork]
       IN IF data.networkId = 0
          THEN /\ Resolve(c, Call("UpdateNetworkUseCase", "done", data),
                          Failure("MISSING_NETWORK_ID"))
               /\ UNCHANGED networkRepository
          ELSE IF existingNetwork = NoNetwork
          THEN /\ Resolve(c, call, Failure("NETWORK_NOT_FOUND"))
               /\ UNCHANGED networkRepository
          ELSE IF existingNetwork.adminId = data.adminId
          THEN /\ Resolve(c, call, Failure("NOT_ALLOWED_TO_PERFORM_ACTION_IN_NETWORK"))
               /\ UNCHANGED networkRepository
          ELSE /\ updateNetwork(data.networkId, data)
               /\ Resolve(c, [call EXCEPT !.mutation = TRUE], Success)
    /\ UseCaseStep

\* DeleteNetworkUseCase.execute(data)
DeleteNetworkUseCase_execute(c, data) ==
    /\ calls[c] = NoCall
    /\ LET networkInfo == findNetworkById(data.networkId)
           call == [Call("DeleteNetworkUseCase", "done", data) EXCEPT
                       !.existingNetwork = networkInfo]
       IN IF networkInfo = NoNetwork
          THEN /\ Resolve(c, call, Failure("NETWORK_NOT_FOUND"))
               /\ UNCHANGED networkRepository
          ELSE IF networkInfo.adminId # data.adminId
          THEN /\ Resolve(c, call, Failure("NOT_ALLOWED_TO_PERFORM_ACTION_IN_NETWORK"))
               /\ UNCHANGED networkRepository
          ELSE /\ deleteNetwork(data.networkId)
               /\ Resolve(c, [call EXCEPT !.mutation = TRUE], Success)
    /\ UseCaseStep

\* the caller of execute takes the result
respond(c) ==
    /\ calls[c] # NoCall
    /\ calls[c].pc = "done"
    /\ calls' = [calls EXCEPT ![c] = NoCall]
    /\ last' = [op |-> calls[c].useCase, err |-> calls[c].result.error]
    /\ UNCHANGED networkRepository
    /\ UNCHANGED network
    /\ UNCHANGED objects

NextUseCases ==
    \/ \E c \in CallIds, data \in CreateNetworkArgs : CreateNetworkUseCase_execute(c, data)
    \/ \E c \in CallIds : CreateNetworkUseCase_afterFindById(c)
    \/ \E c \in CallIds : CreateNetworkUseCase_afterFindNetworkByName(c)
    \/ \E c \in CallIds : CreateNetworkUseCase_afterCreate(c)
    \/ \E c \in CallIds, data \in UpdateNetworkArgs : UpdateNetworkUseCase_execute(c, data)
    \/ \E c \in CallIds, data \in DeleteNetworkArgs : DeleteNetworkUseCase_execute(c, data)
    \/ \E c \in CallIds : respond(c)

\* execute calls of the three use cases running against one repository,
\* interleaved at their awaits
SpecUseCases == InitNew /\ [][NextUseCases]_vars

\* an execute call of useCase has resolved
Done(c, useCase) ==
    /\ calls[c] # NoCall
    /\ calls[c].useCase = useCase
    /\ calls[c].pc = "done"

\* C26: when CreateNetworkUseCase.execute rejects a request, the result
\* (success = false) names the cause: EMPTY_NAME for an empty name,
\* MISSING_ADMIN for a missing adminId, ADMIN_NOT_FOUND when the user
\* repository has no such user, DUPLICATE_NETWORK_NAME when a network with
\* that name exists; in none of these cases is repository.create called.
C26_RejectionNamesCause ==
    \A c \in CallIds :
        Done(c, "CreateNetworkUseCase") /\ ~calls[c].create =>
            /\ ~calls[c].result.success
            /\ calls[c].result.error =
                  IF calls[c].data.name = <<>> THEN "EMPTY_NAME"
                  ELSE IF calls[c].data.adminId = "" THEN "MISSING_ADMIN"
                  ELSE IF calls[c].admin = "" THEN "ADMIN_NOT_FOUND"
                  ELSE "DUPLICATE_NETWORK_NAME"

\* C27: network names stay unique under concurrent creation: of the
\* execute calls with one name, interleaved at their awaits, at most one
\* is at repository.create, and no two stored networks share a name.
C27_UniqueNames ==
    /\ \A c, d \in CallIds :
          /\ c # d
          /\ calls[c] # NoCall /\ calls[d] # NoCall
          /\ calls[c].useCase = "CreateNetworkUseCase"
          /\ calls[d].useCase = "CreateNetworkUseCase"
          /\ calls[c].pc = "create" /\ calls[d].pc = "create"
          => calls[c].network.name # calls[d].network.name
    /\ \A row, other \in networkRepository :
          row.name = other.name => row = other

\* C28: only the administrator of a network can update or delete it:
\* updateNetwork and deleteNetwork are called only when the adminId of the
\* request is the adminId of the stored network, and a requester who is not
\* the administrator gets NOT_ALLOWED_TO_PERFORM_ACTION_IN_NETWORK with the
\* stored network left as it was.
C28_OnlyAdministratorMutates ==
    \A c \in CallIds :
        Done(c, "UpdateNetworkUseCase") \/ Done(c, "DeleteNetworkUseCase") =>
            /\ calls[c].mutation =>
                  calls[c].data.adminId = calls[c].existingNetwork.adminId
            /\ (/\ calls[c].existingNetwork # NoNetwork
                /\ calls[c].data.adminId # calls[c].existingNetwork.adminId)
               => /\ ~calls[c].mutation
                  /\ calls[c].result.error = "NOT_ALLOWED_TO_PERFORM_ACTION_IN_NETWORK"

====
